---- MODULE Spec2Model ----
(***************************************************************************)
(* Model of OBS-recording-mover.py: the recorder event handlers            *)
(* (on_record_file_changed, on_record_state_changed), the window_tracker   *)
(* thread, the output path queue (add_files) and move_recording.           *)
(*                                                                         *)
(* Handlers run one at a time on the event client's callback thread; the   *)
(* only point where a handler waits for another thread is                  *)
(* focus_thread.join(), so the stop branch is split there and at each      *)
(* move_recording call.  Wall-clock time is the integer variable clock; it *)
(* advances only while a tracker thread is inside time.sleep, every other  *)
(* statement being instantaneous at the scale of the poll interval.  The   *)
(* program uses only differences of time.time() values, so the origin of   *)
(* clock is moved to 0 whenever the last live tracker thread ends.         *)
(* A thread that has ended keeps no local state, and ended threads are     *)
(* dropped from threads when the next one is created.  The track command   *)
(* is left at its default (unset), so titles come from the window query.   *)
(*                                                                         *)
(* Spec is the event handling once main has connected, FairSpec adds the   *)
(* scheduling of the threads.  MainSpec is main's connection to the        *)
(* recorder (lines 443-495).  CallSpec applies sanitize and path_translate *)
(* to every input of bounded sets of titles, paths and tables; strings are *)
(* TLA+ strings and the str and os.path functions are computed on them.    *)
(***************************************************************************)
EXTENDS Integers, Sequences, FiniteSets, TLC

\* ---------------------------------------------------------------- bounds
\* number of distinct recording paths and window titles the environment
\* can report, the longest tracked time in seconds, the largest poll interval
NumPaths == 2
NumTitles == 1
MaxTime == 2
MaxInterval == 1

PathPool == <<"/rec/a.mkv", "/rec/b.mkv", "/rec/c.mkv", "/rec/d.mkv", "/rec/e.mkv">>
TitlePool == <<"A", "B", "C", "D", "E">>
Paths == {PathPool[i] : i \in 1..NumPaths}
Titles == {TitlePool[i] : i \in 1..NumTitles}

\* ------------------------------------------------------- python values
\* A value of an event's path attribute: a str, None, another object, or
\* the attribute is missing altogether (AttributeError on access).
Str(s) == [type |-> "str", val |-> s]
NoneVal == [type |-> "none", val |-> ""]
IntVal == [type |-> "int", val |-> "42"]
Absent == [type |-> "absent", val |-> ""]
PathVals == {Str(p) : p \in Paths} \cup {Str(""), NoneVal, IntVal}

\* data.output_path of a state event: the recording's path, or None
OutputPathVals == {Str(p) : p \in Paths} \cup {NoneVal}

\* bool(v)
Truthy(v) == CASE v.type = "str" -> v.val # ""
               [] v.type = "int" -> v.val # "0"
               [] OTHER -> FALSE

\* isinstance(v, str)
IsStr(v) == v.type = "str"

\* x in list
InList(x, l) == \E k \in 1..Len(l) : l[k] = x

\* last_title = None
None == "None"

\* bool(last_title)
TitleSet(t) == t # None /\ t # ""

B2S(b) == IF b THEN "True" ELSE "False"

OutputStates == {"OBS_WEBSOCKET_OUTPUT_STARTED", "OBS_WEBSOCKET_OUTPUT_STOPPED",
                 "OBS_WEBSOCKET_OUTPUT_PAUSED", "OBS_WEBSOCKET_OUTPUT_RESUMED"}

\* the list of line 338 without the PAUSED marker
PauseResumeOnlyResumed == {"OBS_WEBSOCKET_OUTPUT_RESUMED"}

PAUSE_RESUME_STATES == {"OBS_WEBSOCKET_OUTPUT_RESUMED", "OBS_WEBSOCKET_OUTPUT_PAUSED"}

StateEvents == [output_active : BOOLEAN, output_state : OutputStates,
                output_path : OutputPathVals]
\* output_path is read only when new_output_path is missing
FileEvents == {[new_output_path |-> v, output_path |-> Absent] : v \in PathVals}
                \cup {[new_output_path |-> Absent, output_path |-> v] :
                        v \in OutputPathVals \cup {Absent}}

\* What the title source does on one poll: a title (possibly empty), no
\* active window, or an error (exception / nonzero exit status).
TitleOutcomes == [kind : {"ok"}, title : Titles \cup {""}]
                   \cup {[kind |-> "nowin", title |-> ""], [kind |-> "error", title |-> ""]}

\* What the file system does to one move_recording call: the source is
\* missing (287-289), os.makedirs raises (295), shutil.move fails (303-304)
\* or the file is moved (301-302).
MoveOutcomes == {"notfound", "makedirs_raises", "move_fails", "moved"}

VARIABLES
  recording_active,     \* line 134
  window_focus_times,   \* line 136: insertion-ordered dict, as a sequence of [title, secs]
  focus_thread,         \* line 137: 0 is None, else an index into threads
  stop_focus_thread,    \* line 138
  last_output_active,   \* line 139: "None", "True" or "False"
  latest_output_paths,  \* line 140
  last_output_paths,    \* line 141
  threads,              \* the window_tracker threads that may still be alive, oldest first
  clock,                \* time.time()
  TRACK_INTERVAL,       \* args.track_interval
  TRACK_COMMAND,        \* whether args.track_command is set (default "": it is not)
  hpc,                  \* where the callback thread is inside on_record_state_changed
  dominant_window,      \* local of on_record_state_changed
  movei,                \* position of the for loop of line 368
  \* history of the stop processing in progress or last completed
  stopKind, stopPaths, attempts, order, startTime, stopTime, lastOp,
  \* main(): the connection to the recorder
  mpc,                  \* where main is: "connect", "backoff", "listen" or "exit"
  successful_sockets,   \* line 443: the endpoints with a success time on record
  host_string,          \* line 444
  last_success,         \* line 445: None or the recorded time
  cl_evt,               \* line 446: None or the event client
  wait_message_printed, \* line 447
  registered,           \* whether the handlers are registered with a client (457-458)
  failures,             \* connection attempts that have failed so far
  slept,                \* seconds main has spent in time.sleep (474, 485)
  lastAttempt,          \* outcome of the latest connection attempt
  \* the latest call of sanitize or path_translate and what it returned
  call, ret

ctlvars == <<recording_active, focus_thread, stop_focus_thread, last_output_active>>
queuevars == <<latest_output_paths, last_output_paths>>
cfgvars == <<TRACK_INTERVAL, TRACK_COMMAND>>
stophist == <<stopKind, stopPaths, attempts, stopTime>>
corevars == <<recording_active, window_focus_times, focus_thread, stop_focus_thread,
              last_output_active, latest_output_paths, last_output_paths, threads, clock,
              TRACK_INTERVAL, TRACK_COMMAND, hpc, dominant_window, movei,
              stopKind, stopPaths, attempts, order, startTime, stopTime, lastOp>>
mainvars == <<mpc, successful_sockets, host_string, last_success, cl_evt,
              wait_message_printed, registered, failures, slept, lastAttempt>>
callvars == <<call, ret>>
vars == <<recording_active, window_focus_times, focus_thread, stop_focus_thread,
          last_output_active, latest_output_paths, last_output_paths, threads, clock,
          TRACK_INTERVAL, TRACK_COMMAND, hpc, dominant_window, movei,
          stopKind, stopPaths, attempts, order, startTime, stopTime, lastOp,
          mainvars, callvars>>

Unset == "<unset>"

\* ------------------------------------------------------ OutputPathQueue
\* add_files without the test of line 313
add_files_ignores_previous(cur, prev, path) ==
  IF Truthy(path) /\ IsStr(path) /\ ~InList(path.val, cur)
  THEN Append(cur, path.val) ELSE cur

\* add_files without the test of line 312
add_files_allows_duplicates(cur, prev, path) ==
  IF Truthy(path) /\ IsStr(path) /\ ~InList(path.val, prev)
  THEN Append(cur, path.val) ELSE cur

\* add_files(path): the new latest_output_paths
add_files(cur, prev, path) ==
  IF Truthy(path) /\ IsStr(path) /\ ~InList(path.val, cur) /\ ~InList(path.val, prev)
  THEN Append(cur, path.val) ELSE cur

\* ----------------------------------------------------- FocusAccumulator
HasKey(acc, t) == \E k \in 1..Len(acc) : acc[k].title = t

\* window_focus_times[t] += d on a defaultdict(float)
Credit(acc, t, d) ==
  IF HasKey(acc, t)
  THEN [k \in 1..Len(acc) |-> IF acc[k].title = t
                               THEN [title |-> t, secs |-> acc[k].secs + d]
                               ELSE acc[k]]
  ELSE Append(acc, [title |-> t, secs |-> 0 + d])

\* a max that keeps the last of several maximal items
RECURSIVE MaxScanLast(_, _, _)
MaxScanLast(acc, k, best) ==
  IF k > Len(acc) THEN best
  ELSE MaxScanLast(acc, k + 1, IF acc[k].secs >= acc[best].secs THEN k ELSE best)

\* max(items, key=...): scans in iteration order, replaces the best item
\* only by a strictly greater one
RECURSIVE MaxScan(_, _, _)
MaxScan(acc, k, best) ==
  IF k > Len(acc) THEN best
  ELSE MaxScan(acc, k + 1, IF acc[k].secs > acc[best].secs THEN k ELSE best)

\* lines 361-366
SelectDominant(acc) ==
  IF acc # <<>> THEN acc[MaxScan(acc, 2, 1)].title ELSE "Unknown"

\* --------------------------------------------------------- FocusTracker
Alive(th) == th.pc # "done"
DeadThread == [pc |-> "done", last_title |-> None, last_time |-> 0, wake |-> 0]
NewThread == [pc |-> "init", last_title |-> None, last_time |-> 0, wake |-> 0]

\* lines 209-229: current_title
CurrentTitle(o, cmd) ==
  IF cmd
  THEN IF o.kind = "ok" THEN (IF o.title # "" THEN o.title ELSE "Desktop") ELSE "Desktop"
  ELSE IF o.kind = "ok" THEN o.title ELSE "Desktop"

\* lines 192-206
T_start(i) ==
  /\ threads[i].pc = "init"
  /\ threads' = [threads EXCEPT ![i] = [@ EXCEPT !.pc = "check", !.last_title = None,
                                                 !.last_time = clock]]
  /\ UNCHANGED <<mainvars, callvars, ctlvars, queuevars, cfgvars, window_focus_times, clock, hpc,
                 dominant_window, movei, stophist, order, startTime, lastOp>>

\* line 208 without the test of stop_focus_thread
T_check_ignores_stop(i) ==
  /\ threads[i].pc = "check"
  /\ clock + TRACK_INTERVAL <= MaxTime
  /\ threads' = [threads EXCEPT ![i].pc = "poll"]
  /\ UNCHANGED <<mainvars, callvars, ctlvars, queuevars, cfgvars, window_focus_times, clock, hpc,
                 dominant_window, movei, stophist, order, startTime, lastOp>>

\* line 208: the loop condition.  A new iteration is begun only while its
\* sleep still fits under MaxTime.
T_check(i) ==
  /\ threads[i].pc = "check"
  /\ IF stop_focus_thread
     THEN threads' = [threads EXCEPT ![i].pc = "flush"]
     ELSE /\ clock + TRACK_INTERVAL <= MaxTime
          /\ threads' = [threads EXCEPT ![i].pc = "poll"]
  /\ UNCHANGED <<mainvars, callvars, ctlvars, queuevars, cfgvars, window_focus_times, clock, hpc,
                 dominant_window, movei, stophist, order, startTime, lastOp>>

\* lines 209-238, up to the call of time.sleep
T_poll(i, o) ==
  /\ threads[i].pc = "poll"
  /\ window_focus_times' =
       IF TitleSet(threads[i].last_title)
       THEN Credit(window_focus_times, threads[i].last_title, clock - threads[i].last_time)
       ELSE window_focus_times
  /\ threads' = [threads EXCEPT ![i] = [pc |-> "sleep",
                                        last_title |-> CurrentTitle(o, TRACK_COMMAND),
                                        last_time |-> clock,
                                        wake |-> clock + TRACK_INTERVAL]]
  /\ UNCHANGED <<mainvars, callvars, ctlvars, queuevars, cfgvars, clock, hpc,
                 dominant_window, movei, stophist, order, startTime, lastOp>>

\* line 238: time.sleep returns
T_wake(i) ==
  /\ threads[i].pc = "sleep"
  /\ clock >= threads[i].wake
  /\ threads' = [threads EXCEPT ![i].pc = "check"]
  /\ UNCHANGED <<mainvars, callvars, ctlvars, queuevars, cfgvars, window_focus_times, clock, hpc,
                 dominant_window, movei, stophist, order, startTime, lastOp>>

\* lines 252-256: the final update, then the thread ends
T_flush(i) ==
  /\ threads[i].pc = "flush"
  /\ window_focus_times' =
       IF TitleSet(threads[i].last_title)
       THEN Credit(window_focus_times, threads[i].last_title, clock - threads[i].last_time)
       ELSE window_focus_times
  /\ threads' = [threads EXCEPT ![i] = DeadThread]
  /\ order' = Append(order, "flush")
  /\ clock' = IF \E j \in 1..Len(threads) : j # i /\ Alive(threads[j]) THEN clock ELSE 0
  /\ UNCHANGED <<mainvars, callvars, ctlvars, queuevars, cfgvars, hpc,
                 dominant_window, movei, stophist, startTime, lastOp>>

\* one second passes while some tracker sleeps
Tick ==
  /\ \E i \in 1..Len(threads) : threads[i].pc = "sleep" /\ clock < threads[i].wake
  /\ clock' = clock + 1
  /\ UNCHANGED <<mainvars, callvars, ctlvars, queuevars, cfgvars, window_focus_times, threads, hpc,
                 dominant_window, movei, stophist, order, startTime, lastOp>>

\* ---------------------------------------------------- SessionController
\* The history variables describe one stop processing; they are emptied when
\* the next handler is entered.
ResetStopHistory ==
  /\ stopKind' = "none"
  /\ stopPaths' = <<>>
  /\ attempts' = <<>>
  /\ order' = <<>>
  /\ stopTime' = 0
  /\ dominant_window' = Unset

\* lines 322-326
on_record_file_changed(data) ==
  /\ hpc = "ready"
  /\ latest_output_paths' =
       IF data.new_output_path # Absent
       THEN add_files(latest_output_paths, last_output_paths, data.new_output_path)
       ELSE IF data.output_path # Absent
            THEN add_files(latest_output_paths, last_output_paths, data.output_path)
            ELSE latest_output_paths
  /\ lastOp' = "file"
  /\ ResetStopHistory
  /\ UNCHANGED <<mainvars, callvars, ctlvars, last_output_paths, cfgvars, window_focus_times, threads, clock,
                 hpc, movei, startTime>>

\* line 338 without the comparison with last_output_active
IgnoredNoEdge(data) ==
  data.output_state \in PAUSE_RESUME_STATES

\* line 338 without the pause/resume list
IgnoredOnlyEdge(data) ==
  B2S(data.output_active) = last_output_active

\* line 338: the condition of the early return
Ignored(data) ==
  \/ B2S(data.output_active) = last_output_active
  \/ data.output_state \in PAUSE_RESUME_STATES

\* lines 334-342, the early return taken
StateIgnored(data) ==
  /\ hpc = "ready"
  /\ Ignored(data)
  /\ latest_output_paths' = add_files(latest_output_paths, last_output_paths, data.output_path)
  /\ lastOp' = "ignored"
  /\ ResetStopHistory
  /\ UNCHANGED <<mainvars, callvars, ctlvars, last_output_paths, cfgvars, window_focus_times, threads, clock,
                 hpc, movei, startTime>>

\* lines 334-352
StateStart(data) ==
  /\ hpc = "ready"
  /\ ~Ignored(data)
  /\ data.output_active
  /\ latest_output_paths' = add_files(latest_output_paths, last_output_paths, data.output_path)
  /\ last_output_active' = B2S(data.output_active)
  /\ recording_active' = TRUE
  /\ window_focus_times' = <<>>
  /\ stop_focus_thread' = FALSE
  /\ threads' = Append(SelectSeq(threads, Alive), NewThread)
  /\ focus_thread' = Len(threads')
  /\ startTime' = clock
  /\ lastOp' = "start"
  /\ ResetStopHistory
  /\ UNCHANGED <<mainvars, callvars, last_output_paths, cfgvars, clock, hpc, movei>>

\* lines 334-344 and 353-356: up to the join
StateStop(data) ==
  /\ hpc = "ready"
  /\ ~Ignored(data)
  /\ ~data.output_active
  /\ latest_output_paths' = add_files(latest_output_paths, last_output_paths, data.output_path)
  /\ last_output_active' = B2S(data.output_active)
  /\ recording_active' = FALSE
  /\ stop_focus_thread' = TRUE
  /\ hpc' = "join"
  /\ stopKind' = IF recording_active THEN "fromRecording" ELSE "fromIdle"
  /\ stopPaths' = latest_output_paths'
  /\ stopTime' = clock
  /\ attempts' = <<>>
  /\ order' = <<>>
  /\ dominant_window' = Unset
  /\ lastOp' = "stop"
  /\ UNCHANGED <<mainvars, callvars, focus_thread, last_output_paths, cfgvars, window_focus_times, threads,
                 clock, movei, startTime>>

on_record_state_changed(data) ==
  \/ StateIgnored(data)
  \/ StateStart(data)
  \/ StateStop(data)

\* the stop branch without the join of line 358
JoinSkipped == TRUE

\* lines 357-358: focus_thread.join() returns
JoinReturns == IF focus_thread = 0 THEN TRUE ELSE ~Alive(threads[focus_thread])

\* lines 357-366 and 373-374
StopJoined ==
  /\ hpc = "join"
  /\ JoinReturns
  /\ IF latest_output_paths # <<>>
     THEN /\ dominant_window' = SelectDominant(window_focus_times)
          /\ order' = Append(order, "dominant")
          /\ movei' = 1
          /\ hpc' = "move"
     ELSE /\ hpc' = "ready"
          /\ UNCHANGED <<dominant_window, order, movei>>
  /\ UNCHANGED <<mainvars, callvars, ctlvars, queuevars, cfgvars, window_focus_times, threads, clock,
                 stophist, startTime, lastOp>>

\* move_recording(path, window_title) under one behaviour of the file
\* system: what was attempted and whether the call raised
move_recording(path, window_title, fs) ==
  [path |-> path, title |-> window_title, result |-> fs,
   raised |-> (fs = "makedirs_raises")]

\* lines 368-369: one iteration of the loop; an exception leaves the handler
MoveStep(fs) ==
  /\ hpc = "move"
  /\ movei <= Len(latest_output_paths)
  /\ LET r == move_recording(latest_output_paths[movei], dominant_window, fs) IN
       /\ attempts' = Append(attempts, r)
       /\ order' = Append(order, "move")
       /\ IF r.raised
          THEN hpc' = "ready" /\ movei' = movei
          ELSE /\ movei' = movei + 1
               /\ hpc' = IF movei + 1 > Len(latest_output_paths) THEN "rotate" ELSE "move"
  /\ UNCHANGED <<mainvars, callvars, ctlvars, queuevars, cfgvars, window_focus_times, threads, clock,
                 dominant_window, stopKind, stopPaths, stopTime, startTime, lastOp>>

\* lines 371-372
Rotate ==
  /\ hpc = "rotate"
  /\ last_output_paths' = latest_output_paths
  /\ latest_output_paths' = <<>>
  /\ order' = Append(order, "rotate")
  /\ hpc' = "ready"
  /\ UNCHANGED <<mainvars, callvars, ctlvars, cfgvars, window_focus_times, threads, clock,
                 dominant_window, movei, stophist, startTime, lastOp>>

\* -------------------------------------------------------------- strings
\* Python str operations on TLA+ strings.  The em dash (U+2014) cannot be
\* written in a module; the character "~", which no input contains
\* otherwise, stands for it.
EMDASH == "~"

UPPER == "ABCDEFGHIJKLMNOPQRSTUVWXYZ"
LOWER == "abcdefghijklmnopqrstuvwxyz"
DIGITS == "0123456789"

\* c in s, for a character c
HasChar(s, c) == \E i \in 1..Len(s) : SubSeq(s, i, i) = c

\* c.lower()
LowerChar(c) ==
  IF HasChar(UPPER, c)
  THEN LET i == CHOOSE j \in 1..Len(UPPER) : SubSeq(UPPER, j, j) = c
       IN SubSeq(LOWER, i, i)
  ELSE c

\* s.lower()
RECURSIVE Lower(_)
Lower(s) == IF s = "" THEN "" ELSE LowerChar(Head(s)) \o Lower(Tail(s))

\* s.replace(a, b) for a character a
RECURSIVE Replace(_, _, _)
Replace(s, a, b) ==
  IF s = "" THEN ""
  ELSE (IF Head(s) = a THEN b ELSE Head(s)) \o Replace(Tail(s), a, b)

\* s.lstrip(chars), s.rstrip(chars), s.strip()
RECURSIVE LStrip(_, _)
LStrip(s, chars) ==
  IF s # "" /\ HasChar(chars, Head(s)) THEN LStrip(Tail(s), chars) ELSE s

RECURSIVE RStrip(_, _)
RStrip(s, chars) ==
  IF s # "" /\ HasChar(chars, SubSeq(s, Len(s), Len(s)))
  THEN RStrip(SubSeq(s, 1, Len(s) - 1), chars) ELSE s

Strip(s) == RStrip(LStrip(s, " "), " ")

\* s.split(sep) for a character sep: cur is the piece being read
RECURSIVE SplitFrom(_, _, _)
SplitFrom(s, sep, cur) ==
  IF s = "" THEN <<cur>>
  ELSE IF Head(s) = sep THEN <<cur>> \o SplitFrom(Tail(s), sep, "")
  ELSE SplitFrom(Tail(s), sep, cur \o Head(s))

Split(s, sep) == SplitFrom(s, sep, "")

NonEmpty(p) == p # ""

\* s.split(): on runs of whitespace, no empty pieces
SplitWhitespace(s) == SelectSeq(Split(s, " "), NonEmpty)

\* sep.join(parts)
RECURSIVE Join(_, _)
Join(parts, sep) ==
  IF parts = <<>> THEN ""
  ELSE IF Len(parts) = 1 THEN parts[1]
  ELSE parts[1] \o sep \o Join(Tail(parts), sep)

\* sub in s
Contains(s, sub) ==
  \E i \in 1..(Len(s) - Len(sub) + 1) : SubSeq(s, i, i + Len(sub) - 1) = sub

\* s.startswith(prefix)
startswith(s, prefix) ==
  Len(prefix) <= Len(s) /\ SubSeq(s, 1, Len(prefix)) = prefix

\* ch.isalnum()
IsAlnum(c) == HasChar(UPPER, c) \/ HasChar(LOWER, c) \/ HasChar(DIGITS, c)

\* "".join(ch for ch in s if ch.isalnum() or ch in " _-")
RECURSIVE KeepSafe(_)
KeepSafe(s) ==
  IF s = "" THEN ""
  ELSE (IF IsAlnum(Head(s)) \/ HasChar(" _-", Head(s)) THEN Head(s) ELSE "")
         \o KeepSafe(Tail(s))

\* os.path.basename(p) on a POSIX system: what follows the last "/"
basename(p) == LET pieces == Split(p, "/") IN pieces[Len(pieces)]

\* ------------------------------------------------------- TitleSanitizer
MaxSegs == 2

\* line 172: len(kw) + 6
KEYWORD_SLACK == 6

\* lines 159-167
irrelevant_keywords == <<"vulkan", "direct3d", "opengl", "metal", "dx12", "dx11", "dx9">>

\* Raw titles: up to MaxSegs segments joined by dashes.  The segments
\* include a plain word, a graphics-API token, two tokens in one segment,
\* a token with a long tail, punctuation, a path, blanks and nothing.
SegmentPool == <<"Game", "Vulkan", "DX11 dx12", "My Game!", "vulkan renderer",
                 "/opt/games/", " ", "">>
DashPool == <<"-", " - ", " " \o EMDASH \o " ">>
Segments == {SegmentPool[i] : i \in 1..Len(SegmentPool)}
Dashes == {DashPool[i] : i \in 1..Len(DashPool)}

RECURSIVE TitlesOf(_)
TitlesOf(n) ==
  IF n = 1 THEN Segments
  ELSE {t \o d \o g : t \in TitlesOf(n - 1), d \in Dashes, g \in Segments}

RawTitles == UNION {TitlesOf(n) : n \in 1..MaxSegs}

\* SHORT_HANDS (line 412): no entry, or one for a title
NoEntries == [t \in {} |-> ""]
ShorthandTables == {NoEntries, [t \in {"Game"} |-> "G"]}

\* lines 171-173: the loop over the keywords from keyword k on; parts.pop()
\* on an empty list raises IndexError
RECURSIVE PopIrrelevant(_, _, _)
PopIrrelevant(parts, last, k) ==
  IF k > Len(irrelevant_keywords) THEN [parts |-> parts, raised |-> FALSE]
  ELSE IF Contains(last, irrelevant_keywords[k])
          /\ Len(last) < Len(irrelevant_keywords[k]) + KEYWORD_SLACK
       THEN IF parts = <<>>
            THEN [parts |-> parts, raised |-> TRUE]
            ELSE PopIrrelevant(SubSeq(parts, 1, Len(parts) - 1), last, k + 1)
       ELSE PopIrrelevant(parts, last, k + 1)

\* lines 186-187
Cleanup(chosen) == Join(SplitWhitespace(Strip(KeepSafe(chosen))), "-")

\* lines 149-189.  The result records, besides the value returned or the
\* exception, the normalised title, the segments before and after the loop
\* and the text picked at line 177 or 183.
extract_relevant_title(raw) ==
  LET title == Strip(Replace(raw, EMDASH, "-"))
      split == Split(title, "-")
      parts0 == SelectSeq([k \in 1..Len(split) |-> Strip(split[k])], NonEmpty)
      popped == IF parts0 # <<>>
                THEN PopIrrelevant(parts0, Replace(Lower(parts0[Len(parts0)]), " ", ""), 1)
                ELSE [parts |-> parts0, raised |-> FALSE]
      parts == popped.parts
      picked == IF parts # <<>> THEN Strip(parts[Len(parts)]) ELSE title
      chosen == IF parts # <<>>
                THEN IF HasChar(picked, "/") \/ HasChar(picked, "\\")
                     THEN LET base == basename(RStrip(picked, "/\\"))
                          IN IF base # "" THEN base ELSE picked
                     ELSE picked
                ELSE title
  IN [raised |-> popped.raised,
      value |-> IF popped.raised THEN "" ELSE Cleanup(chosen),
      title |-> title, parts0 |-> parts0, parts |-> parts,
      picked |-> IF popped.raised THEN "" ELSE picked]

\* lines 259-267
sanitize(raw, SHORT_HANDS) ==
  LET r == extract_relevant_title(raw)
  IN IF ~r.raised /\ r.value \in DOMAIN SHORT_HANDS /\ SHORT_HANDS[r.value] # ""
     THEN [r EXCEPT !.value = SHORT_HANDS[r.value]]
     ELSE r

\* the pending call sanitize(call.arg) with SHORT_HANDS = call.table runs
CallSanitize ==
  /\ call.fn = "sanitize"
  /\ ~ret.done
  /\ ret' = [done |-> TRUE] @@ sanitize(call.arg, call.table)
  /\ UNCHANGED <<corevars, mainvars, call>>

\* --------------------------------------------------------- PathResolver
MaxDepth == 2
MaxEntries == 2

\* Absolute POSIX paths of up to MaxDepth components.
ComponentPool == <<"rec", "recs", "old", "a.mkv", ".", "..">>
Components == {ComponentPool[i] : i \in 1..Len(ComponentPool)}

RECURSIVE PathsOf(_)
PathsOf(n) ==
  IF n = 1 THEN {"/" \o c : c \in Components}
  ELSE {p \o "/" \o c : p \in PathsOf(n - 1), c \in Components}

RawPaths == UNION {PathsOf(n) : n \in 1..MaxDepth}

\* PATH_TRANSLATE (line 399): the items of the dict in its order; the keys
\* of a dict are distinct
EntryPool == <<[src |-> "/rec", dst |-> "/mnt/x"],
               [src |-> "/rec/old", dst |-> "/mnt/y/"],
               [src |-> "/recs", dst |-> "/mnt/z"],
               [src |-> "/rec/", dst |-> "/mnt/w"]>>

TranslateTables ==
  {t \in UNION {[1..n -> 1..Len(EntryPool)] : n \in 0..MaxEntries} :
     \A j, k \in DOMAIN t : t[j] = t[k] => j = k}

TableOf(t) == [k \in DOMAIN t |-> EntryPool[t[k]]]

\* posixpath.normpath, the loop over the components: comps from k on
RECURSIVE NormComps(_, _, _, _)
NormComps(comps, k, initial, new) ==
  IF k > Len(comps) THEN new
  ELSE LET c == comps[k] IN
    IF c = "" \/ c = "." THEN NormComps(comps, k + 1, initial, new)
    ELSE IF c # ".." \/ (~initial /\ new = <<>>)
              \/ (new # <<>> /\ new[Len(new)] = "..")
         THEN NormComps(comps, k + 1, initial, Append(new, c))
         ELSE IF new # <<>>
              THEN NormComps(comps, k + 1, initial, SubSeq(new, 1, Len(new) - 1))
              ELSE NormComps(comps, k + 1, initial, new)

\* os.path.normpath(path) on a POSIX system, for a path that does not begin
\* with two slashes
normpath(path) ==
  IF path = "" THEN "."
  ELSE LET initial == startswith(path, "/")
           joined == Join(NormComps(Split(path, "/"), 1, initial, <<>>), "/")
           res == IF initial THEN "/" \o joined ELSE joined
       IN IF res = "" THEN "." ELSE res

\* len(os.path.commonprefix([a, b])) for two lists
RECURSIVE CommonLen(_, _)
CommonLen(a, b) ==
  IF a # <<>> /\ b # <<>> /\ Head(a) = Head(b)
  THEN 1 + CommonLen(Tail(a), Tail(b)) ELSE 0

\* os.path.relpath(path, start) for absolute path and start
relpath(path, start) ==
  LET start_list == SelectSeq(Split(normpath(start), "/"), NonEmpty)
      path_list == SelectSeq(Split(normpath(path), "/"), NonEmpty)
      i == CommonLen(start_list, path_list)
      rel_list == [k \in 1..(Len(start_list) - i) |-> ".."]
                    \o SubSeq(path_list, i + 1, Len(path_list))
  IN IF rel_list = <<>> THEN "." ELSE Join(rel_list, "/")

\* os.path.join(a, b)
join(a, b) ==
  IF startswith(b, "/") THEN b
  ELSE IF a = "" \/ SubSeq(a, Len(a), Len(a)) = "/" THEN a \o b
  ELSE a \o "/" \o b

\* a scan that goes on after a match: the index of the last entry whose
\* source prefix matches, 0 if none
RECURSIVE LastMatch(_, _, _)
LastMatch(norm_path, table, k) ==
  IF k > Len(table) THEN 0
  ELSE LET later == LastMatch(norm_path, table, k + 1)
       IN IF later # 0 THEN later
          ELSE IF startswith(norm_path, table[k].src) THEN k ELSE 0

\* lines 272-273: the loop from entry k on: the index of the entry at which
\* the loop returns, 0 if it runs to its end
RECURSIVE FirstMatch(_, _, _)
FirstMatch(norm_path, table, k) ==
  IF k > Len(table) THEN 0
  ELSE IF startswith(norm_path, table[k].src) THEN k
  ELSE FirstMatch(norm_path, table, k + 1)

\* lines 270-281
path_translate(path, PATH_TRANSLATE) ==
  LET norm_path == normpath(path)
      k == FirstMatch(norm_path, PATH_TRANSLATE, 1)
  IN IF k # 0
     THEN join(PATH_TRANSLATE[k].dst, relpath(norm_path, PATH_TRANSLATE[k].src))
     ELSE path

\* the pending call path_translate(call.arg) with PATH_TRANSLATE =
\* call.table runs
CallTranslate ==
  /\ call.fn = "path_translate"
  /\ ~ret.done
  /\ ret' = [done |-> TRUE, raised |-> FALSE,
             value |-> path_translate(call.arg, call.table)]
  /\ UNCHANGED <<corevars, mainvars, call>>

\* ------------------------------------------------------------------ main
\* lines 443-495: the connection to the recorder.  The configuration read
\* at startup names the endpoints that were once connected to.
NumEndpoints == 2
MaxSlept == 4

\* line 474: time.sleep(2)
RETRY_DELAY == 2

EndpointPool == <<"localhost:4455", "localhost:4456", "obs-host:4455", "obs-host:4456">>
Endpoints == {EndpointPool[i] : i \in 1..NumEndpoints}

\* int(time.time()) of an earlier run (line 463)
TimeVal == [type |-> "int", val |-> "1700000000"]

\* line 453, obs.EventClient(...) returns; lines 457-465
M_connected ==
  /\ mpc = "connect"
  /\ cl_evt' = "EventClient"
  /\ registered' = TRUE
  /\ successful_sockets' = successful_sockets \cup {host_string}
  /\ lastAttempt' = "connected"
  /\ mpc' = "listen"
  /\ UNCHANGED <<corevars, callvars, host_string, last_success, wait_message_printed,
                 failures, slept>>

\* line 453, obs.EventClient(...) raises; lines 467-479.  The break of line
\* 479 leaves the connect loop and main goes on to the loop of line 484.
M_connect_fails ==
  /\ mpc = "connect"
  /\ failures' = failures + 1
  /\ lastAttempt' = "failed"
  /\ IF Truthy(last_success)
     THEN /\ wait_message_printed' = TRUE
          /\ mpc' = "backoff"
          /\ UNCHANGED cl_evt
     ELSE /\ cl_evt' = None
          /\ mpc' = "listen"
          /\ UNCHANGED wait_message_printed
  /\ UNCHANGED <<corevars, callvars, successful_sockets, host_string, last_success,
                 registered, slept>>

\* lines 474-475: time.sleep(2) returns, continue
M_backoff ==
  /\ mpc = "backoff"
  /\ slept + RETRY_DELAY <= MaxSlept
  /\ slept' = slept + RETRY_DELAY
  /\ mpc' = "connect"
  /\ UNCHANGED <<corevars, callvars, successful_sockets, host_string, last_success, cl_evt,
                 wait_message_printed, registered, failures, lastAttempt>>

\* lines 484-485: one round of the listen loop
M_listen ==
  /\ mpc = "listen"
  /\ slept + 1 <= MaxSlept
  /\ slept' = slept + 1
  /\ UNCHANGED <<corevars, callvars, mpc, successful_sockets, host_string, last_success,
                 cl_evt, wait_message_printed, registered, failures, lastAttempt>>

\* KeyboardInterrupt: caught at line 487 inside the listen loop, where the
\* client if any is disconnected (491-493); uncaught anywhere else.  Either
\* way the process ends.
M_interrupt ==
  /\ mpc # "exit"
  /\ mpc' = "exit"
  /\ registered' = FALSE
  /\ UNCHANGED <<corevars, callvars, successful_sockets, host_string, last_success, cl_evt,
                 wait_message_printed, failures, slept, lastAttempt>>

\* ------------------------------------------------------- specification
\* lines 133-141: the shared state when the module is loaded
SharedStateInit ==
  /\ recording_active = FALSE
  /\ window_focus_times = <<>>
  /\ focus_thread = 0
  /\ stop_focus_thread = FALSE
  /\ last_output_active = "None"
  /\ latest_output_paths = <<>>
  /\ last_output_paths = <<>>
  /\ threads = <<>>
  /\ clock = 0
  /\ TRACK_INTERVAL \in 1..MaxInterval
  /\ TRACK_COMMAND = FALSE
  /\ hpc = "ready"
  /\ dominant_window = Unset
  /\ movei = 1
  /\ stopKind = "none"
  /\ stopPaths = <<>>
  /\ attempts = <<>>
  /\ order = <<>>
  /\ startTime = 0
  /\ stopTime = 0
  /\ lastOp = "init"

\* main has connected and listens (line 484): the handlers are registered
Connected ==
  /\ mpc = "listen"
  /\ successful_sockets = {EndpointPool[1]}
  /\ host_string = EndpointPool[1]
  /\ last_success = NoneVal
  /\ cl_evt = "EventClient"
  /\ wait_message_printed = FALSE
  /\ registered = TRUE
  /\ failures = 0
  /\ slept = 0
  /\ lastAttempt = "connected"

NoCall ==
  /\ call = [fn |-> "none", arg |-> "", table |-> <<>>]
  /\ ret = [done |-> FALSE]

\* the recorder's events are handled once main has connected
Init == SharedStateInit /\ Connected /\ NoCall

Next ==
  \/ \E data \in FileEvents : on_record_file_changed(data)
  \/ \E data \in StateEvents : on_record_state_changed(data)
  \/ StopJoined
  \/ \E fs \in MoveOutcomes : MoveStep(fs)
  \/ Rotate
  \/ \E i \in 1..Len(threads) : T_start(i)
  \/ \E i \in 1..Len(threads) : T_check(i)
  \/ \E i \in 1..Len(threads), o \in TitleOutcomes : T_poll(i, o)
  \/ \E i \in 1..Len(threads) : T_wake(i)
  \/ \E i \in 1..Len(threads) : T_flush(i)
  \/ Tick

Spec == Init /\ [][Next]_vars

\* The steps of a started window_tracker thread, and the steps by which the
\* callback thread goes on inside the stop branch.  Both are operating
\* system threads: each is scheduled again while it can run, time.sleep
\* returns once its interval has passed, and a title query returns.
\* Recorder events are under no such obligation.
TrackerStep ==
  \E i \in 1..Len(threads) :
    \/ T_start(i)
    \/ T_check(i)
    \/ \E o \in TitleOutcomes : T_poll(i, o)
    \/ T_wake(i)
    \/ T_flush(i)

CallbackStep ==
  \/ StopJoined
  \/ \E fs \in MoveOutcomes : MoveStep(fs)
  \/ Rotate

FairSpec ==
  /\ Spec
  /\ WF_vars(TrackerStep)
  /\ WF_vars(Tick)
  /\ WF_vars(CallbackStep)

\* main from line 443 on, for every endpoint and every record of earlier
\* successes the configuration may hold
MainInit ==
  /\ SharedStateInit
  /\ NoCall
  /\ host_string \in Endpoints
  /\ successful_sockets \in SUBSET Endpoints
  /\ last_success = IF host_string \in successful_sockets THEN TimeVal ELSE NoneVal
  /\ cl_evt = None
  /\ wait_message_printed = FALSE
  /\ registered = FALSE
  /\ failures = 0
  /\ slept = 0
  /\ lastAttempt = "none"
  /\ mpc = "connect"

MainNext ==
  \/ M_connected
  \/ M_connect_fails
  \/ M_backoff
  \/ M_listen
  \/ M_interrupt

MainSpec == MainInit /\ [][MainNext]_vars

\* one call of sanitize or path_translate, for every input of the bounded
\* sets
SanitizeCalls == [fn : {"sanitize"}, arg : RawTitles, table : ShorthandTables]
TranslateCalls ==
  {[fn |-> "path_translate", arg |-> path, table |-> TableOf(t)] :
     path \in RawPaths, t \in TranslateTables}

CallInit ==
  /\ SharedStateInit
  /\ Connected
  /\ call \in SanitizeCalls \cup TranslateCalls
  /\ ret = [done |-> FALSE]

CallNext ==
  \/ CallSanitize
  \/ CallTranslate

CallSpec == CallInit /\ [][CallNext]_vars

\* ================================================================ claims
AliveThreads == {i \in 1..Len(threads) : Alive(threads[i])}

\* sum(FocusAccumulator.values())
RECURSIVE SumSecs(_)
SumSecs(acc) == IF acc = <<>> THEN 0 ELSE Head(acc).secs + SumSecs(Tail(acc))

PositionsOf(tag) == {k \in 1..Len(order) : order[k] = tag}

\* OutputPathQueue.add as the specification words it: a no-op unless the
\* path is a non-empty string in neither generation, else appended
QueueAfterAdd(cur, prev, v) ==
  IF v.type = "str" /\ v.val # ""
     /\ (\A k \in 1..Len(cur) : cur[k] # v.val)
     /\ (\A k \in 1..Len(prev) : prev[k] # v.val)
  THEN cur \o <<v.val>>
  ELSE cur

\* a StateChanged event the specification calls ignored
SpecIgnored(data) ==
  \/ data.output_state \in {"OBS_WEBSOCKET_OUTPUT_PAUSED", "OBS_WEBSOCKET_OUTPUT_RESUMED"}
  \/ B2S(data.output_active) = last_output_active

\* C1: after any sequence of recorder events at most one window_tracker
\* thread is alive; a tracker is never started while an earlier one lives.
C1_AtMostOneTracker == Cardinality(AliveThreads) <= 1

\* a second session's tracker is running and a duplicate or pause/resume
\* report has just been handled
C1_Witness ==
  /\ recording_active
  /\ lastOp = "ignored"
  /\ last_output_paths # <<>>
  /\ focus_thread # 0
  /\ threads[focus_thread].pc = "sleep"

\* C2: at a Recording->Idle transition the tracker's final flush precedes
\* the dominant-title computation, which precedes every move attempt, and
\* the rotation comes after a move attempt for every path of the session.
C2_StopOrdering ==
  stopKind = "fromRecording" =>
    /\ \A d \in PositionsOf("dominant") :
         /\ AliveThreads = {}
         /\ \E f \in PositionsOf("flush") : f < d
         /\ \A f \in PositionsOf("flush") : f < d
    /\ \A m \in PositionsOf("move") : \E d \in PositionsOf("dominant") : d < m
    /\ \A r \in PositionsOf("rotate") :
         /\ Len(attempts) = Len(stopPaths)
         /\ \A k \in 1..Len(stopPaths) : attempts[k].path = stopPaths[k]
         /\ \A m \in PositionsOf("move") : m < r

\* a session with two paths, one move failed, one succeeded, then rotated
C2_Witness ==
  /\ stopKind = "fromRecording"
  /\ order = <<"flush", "dominant", "move", "move", "rotate">>
  /\ attempts[1].result = "move_fails"
  /\ attempts[2].result = "moved"

\* C3: when the controller reads the accumulator after the stop of a
\* session of duration T, the sum of its values is within TRACK_INTERVAL
\* of T, whatever titles the polls returned.
C3_SumWithinInterval ==
  (stopKind = "fromRecording" /\ hpc # "join") =>
    LET T == stopTime - startTime
        total == SumSecs(window_focus_times)
    IN total - T <= TRACK_INTERVAL /\ T - total <= TRACK_INTERVAL

\* C4 as stated: an ignored StateChanged event has no effect on the
\* tracker, the accumulator, either queue generation or the recorded level.
C4_IgnoredHasNoEffect ==
  [][\A data \in StateEvents :
       (SpecIgnored(data) /\ on_record_state_changed(data)) =>
         UNCHANGED <<threads, focus_thread, stop_focus_thread, recording_active,
                     window_focus_times, last_output_active,
                     latest_output_paths, last_output_paths>>]_vars

\* C4 amended: an ignored StateChanged event causes no transition and
\* leaves tracker, accumulator, previous generation and recorded level
\* alone; its only effect is add(output_path) on the current generation.
C4_IgnoredOnlyAdds ==
  [][\A p \in OutputPathVals :
       \/ /\ UNCHANGED <<threads, focus_thread, stop_focus_thread, recording_active,
                        window_focus_times, last_output_active, last_output_paths, hpc>>
          /\ latest_output_paths' =
               QueueAfterAdd(latest_output_paths, last_output_paths, p)
       \/ \A a \in BOOLEAN, st \in OutputStates :
            LET data == [output_active |-> a, output_state |-> st, output_path |-> p]
            IN ~(SpecIgnored(data) /\ on_record_state_changed(data))]_vars

\* an ignored report was handled before any level was recorded, and the
\* current generation holds paths
C4_Witness ==
  /\ lastOp = "ignored"
  /\ last_output_active = "None"
  /\ Len(latest_output_paths) = 2

\* C5: while Recording, a pause/resume report or a duplicate
\* outputActive=true report leaves the same tracker running, keeps the
\* accumulator, and triggers no dominant-title selection, move or rotation;
\* the recorded level stays true, so a later stop still ends the session.
C5_PauseKeepsSession ==
  /\ [](recording_active => last_output_active = "True")
  /\ [][recording_active =>
          \/ /\ UNCHANGED <<threads, focus_thread, stop_focus_thread, recording_active,
                           window_focus_times, last_output_active, last_output_paths,
                           hpc, dominant_window, attempts, order>>
             /\ hpc' = "ready"
          \/ \A data \in StateEvents :
               (\/ data.output_state \in {"OBS_WEBSOCKET_OUTPUT_PAUSED",
                                          "OBS_WEBSOCKET_OUTPUT_RESUMED"}
                \/ data.output_active)
                 => ~on_record_state_changed(data)]_vars

\* a report was ignored during a session whose tracker has already
\* credited time, and the credit is still there
C5_Witness ==
  /\ lastOp = "ignored"
  /\ recording_active
  /\ window_focus_times # <<>>
  /\ AliveThreads = {focus_thread}
  /\ ~stop_focus_thread

C7_RotatedAfterEveryStop ==
  (stopKind = "fromRecording" /\ hpc = "ready") =>
    /\ last_output_paths = stopPaths
    /\ latest_output_paths = <<>>

\* C8 as stated: immediately after an Idle->Recording transition the
\* current generation is empty.
C8_StartEmptiesCurrent ==
  lastOp = "start" => latest_output_paths = <<>>

\* C8 amended: an Idle->Recording transition does not reset the queue:
\* previous is unchanged and current is what it was, with the event's own
\* output path added.
C8_StartKeepsQueue ==
  [][\A data \in StateEvents :
       (~recording_active /\ StateStart(data)) =>
         /\ last_output_paths' = last_output_paths
         /\ latest_output_paths' =
              QueueAfterAdd(latest_output_paths, last_output_paths, data.output_path)]_vars

\* a session has just started with two paths queued
C8_Witness ==
  /\ lastOp = "start"
  /\ recording_active
  /\ Len(latest_output_paths) = 2
  /\ last_output_paths = <<>>

\* C9: add(p) is a no-op when p is empty, not a string, in current or in
\* previous, and appends p to current otherwise; add is idempotent, and a
\* path that stays in previous is never added to current.
C9_AddContract ==
  /\ [](\A v \in PathVals :
          LET once == add_files(latest_output_paths, last_output_paths, v)
          IN add_files(once, last_output_paths, v) = once)
  /\ [][\A data \in FileEvents :
          (data.new_output_path # Absent /\ on_record_file_changed(data)) =>
            /\ last_output_paths' = last_output_paths
            /\ latest_output_paths' =
                 QueueAfterAdd(latest_output_paths, last_output_paths,
                               data.new_output_path)]_vars
  /\ [][\A p \in Paths :
          (InList(p, last_output_paths) /\ InList(p, last_output_paths')
           /\ InList(p, latest_output_paths')) => InList(p, latest_output_paths)]_vars

\* a path was reported during the session after a rotation, with both
\* generations holding a path
C9_Witness ==
  /\ lastOp = "file"
  /\ recording_active
  /\ last_output_paths # <<>>
  /\ latest_output_paths # <<>>

\* C10: at a Recording->Idle transition with paths queued, one move is
\* attempted per path, in insertion order, with the same dominant title,
\* and no failure prevents the remaining attempts or the rotation.
C10_EveryPathAttempted ==
  (stopKind = "fromRecording" /\ hpc = "ready" /\ stopPaths # <<>>) =>
    /\ Len(attempts) = Len(stopPaths)
    /\ \A k \in 1..Len(stopPaths) :
         k <= Len(attempts) =>
           attempts[k].path = stopPaths[k] /\ attempts[k].title = dominant_window
    /\ last_output_paths = stopPaths
    /\ latest_output_paths = <<>>

C12_RetryOrAbort ==
  lastAttempt = "failed" =>
    IF Truthy(last_success)
    THEN mpc \in {"backoff", "connect", "exit"}
    ELSE mpc = "exit"

\* C13: sanitize never throws: every call returns a string.
C13_SanitizeNeverThrows ==
  (call.fn = "sanitize" /\ ret.done) => ~ret.raised

\* C14: of the non-empty trimmed segments of the title at most the last one
\* is dropped, and only if its lower-cased space-stripped form contains a
\* token kw and is shorter than len(kw)+6; the text chosen is the last
\* remaining segment, or the whole title if none remains; a title made of
\* "Game", an em dash and "Vulkan" gives "Game".
C14_AtMostLastSegmentDropped ==
  (call.fn = "sanitize" /\ ret.done /\ ~ret.raised) =>
    LET segs == ret.parts0
        low == Replace(Lower(segs[Len(segs)]), " ", "")
        drop == /\ segs # <<>>
                /\ \E k \in 1..Len(irrelevant_keywords) :
                     /\ Contains(low, irrelevant_keywords[k])
                     /\ Len(low) < Len(irrelevant_keywords[k]) + 6
        remaining == IF drop THEN SubSeq(segs, 1, Len(segs) - 1) ELSE segs
    IN /\ ret.parts = remaining
       /\ IF remaining # <<>>
          THEN ret.picked = remaining[Len(remaining)]
          ELSE ret.picked \in {call.arg, ret.title}
       /\ (call.arg = "Game " \o EMDASH \o " Vulkan" /\ call.table = NoEntries)
            => ret.value = "Game"

\* C15: path_translate returns, for the first entry in table order whose
\* source prefix the normalised path starts with, the destination prefix
\* joined with the path relative to that source prefix, whatever later
\* entries match; with no matching entry it returns the path as given.
C15_FirstMatchWins ==
  (call.fn = "path_translate" /\ ret.done) =>
    LET norm == normpath(call.arg)
        table == call.table
        matching == {k \in 1..Len(table) : startswith(norm, table[k].src)}
    IN IF matching = {}
       THEN ret.value = call.arg
       ELSE \E k \in matching :
              /\ \A j \in matching : k <= j
              /\ ret.value = join(table[k].dst, relpath(norm, table[k].src))

\* two entries match, the later one with the longer source prefix, and the
\* result is the first entry's translation, not the later one's
C15_Witness ==
  /\ call.fn = "path_translate"
  /\ ret.done
  /\ Len(call.table) = 2
  /\ LET norm == normpath(call.arg) IN
       /\ startswith(norm, call.table[1].src)
       /\ startswith(norm, call.table[2].src)
       /\ Len(call.table[2].src) > Len(call.table[1].src)
       /\ ret.value = join(call.table[1].dst, relpath(norm, call.table[1].src))
       /\ ret.value # join(call.table[2].dst, relpath(norm, call.table[2].src))

\* C16: the accumulator has one writer at a time: the controller clears it
\* (session start) and reads it (dominant title at the stop) only while no
\* tracker thread is alive, and while a tracker is alive every change of the
\* accumulator is a credit made by that tracker.
C16_SingleWriter ==
  /\ [][AliveThreads = {} \/ \A data \in StateEvents : ~StateStart(data)]_vars
  /\ [][StopJoined => AliveThreads = {}]_vars
  /\ [][(AliveThreads # {} /\ window_focus_times' # window_focus_times) =>
          \E i \in AliveThreads :
            \/ \E o \in TitleOutcomes : T_poll(i, o)
            \/ T_flush(i)]_vars

\* a second session: its tracker has credited time to the cleared
\* accumulator and the stop handler is waiting for it in the join
C16_Witness ==
  /\ hpc = "join"
  /\ AliveThreads # {}
  /\ window_focus_times # <<>>
  /\ last_output_paths # <<>>

\* C17: stop processing runs only on a Recording->Idle transition: an
\* outputActive=false report handled while Idle, the very first event
\* included, selects no dominant title, attempts no move and does not rotate.
C17_NoStopProcessingWhileIdle ==
  stopKind = "fromIdle" =>
    /\ dominant_window = Unset
    /\ attempts = <<>>
    /\ PositionsOf("rotate") = {}

\* C19: in every state between queue operations the current generation
\* holds no path twice and no path that is also in the previous generation.
C19_QueueDisjoint ==
  /\ \A j, k \in 1..Len(latest_output_paths) :
       latest_output_paths[j] = latest_output_paths[k] => j = k
  /\ \A k \in 1..Len(latest_output_paths) :
       ~InList(latest_output_paths[k], last_output_paths)

\* a later session is being drained: both generations hold a path
C19_Witness ==
  /\ hpc = "move"
  /\ stopKind = "fromRecording"
  /\ last_output_paths # <<>>
  /\ latest_output_paths # <<>>

\* C18: once the stop handler has set the stop signal and waits in the
\* join, the tracker begins no further iteration, the signal is not reset
\* while a tracker is alive, and eventually the tracker has flushed and
\* ended, the handler has gone on and the controller is Idle again.
C18_CancellationCompletes ==
  /\ (hpc = "join") ~> (hpc = "ready" /\ AliveThreads = {} /\ ~recording_active)
  /\ [][(stop_focus_thread /\ ~stop_focus_thread') => AliveThreads = {}]_vars
  /\ [][\A i \in AliveThreads :
          (stop_focus_thread /\ threads[i].pc = "check") => threads'[i].pc # "poll"]_vars

\* the handler is blocked in the join and the tracker, having credited time
\* and observed the signal, is about to make its final flush
C18_Witness ==
  /\ hpc = "join"
  /\ stop_focus_thread
  /\ focus_thread # 0
  /\ threads[focus_thread].pc = "flush"
  /\ window_focus_times # <<>>
====
